---- MODULE Spec2Model ----
(***************************************************************************)
(* Conway's Mind Map: the force-directed graph (src/src/graph-layout.js),  *)
(* the Game-of-Life process on it (src/src/simulation.js) and the loop     *)
(* that drives both (src/src/renderer.js).                                 *)
(*                                                                         *)
(* Conventions.  Node indices are 0-based as in the source, so the node    *)
(* with index i is nodes[i + 1].  A JavaScript array is a sequence; the    *)
(* Set aliveNodes is a duplicate-free sequence in insertion order, which   *)
(* is the order Set.prototype.forEach visits.  Coordinates are integers:   *)
(* a division rounds down to the integer grid where the source rounds to   *)
(* the nearest double.  Distances are compared by their squares.  A call   *)
(* of Math.random() is a value of Draws, in hundredths.                    *)
(***************************************************************************)
EXTENDS Integers, Sequences, FiniteSets, TLC

VARIABLES
  nodes,               \* graph.nodes: sequence of [x, y, z, connections]
  connectionDistance,  \* graph.connectionDistance
  aliveNodes,          \* simulation.aliveNodes, in insertion order
  generation,          \* simulation.generation
  config,              \* the simulation's configuration fields
  last,                \* the last operation and what it returned
  listedMissing,       \* history: an addNode list named a node that never existed
  listedSelf,          \* history: an addNode list named the new node itself
  shifted,             \* history: removeNode ran since the alive-set was seeded
  vnodes,              \* renderer: nodes[i].userData.alive, per visual node
  rgeneration,         \* renderer: generation
  livingCount,         \* renderer: text of #livingCount
  connectionLines,     \* renderer: the drawn connections, as index pairs
  isPlaying,           \* renderer: isPlaying
  currentTime,         \* renderer: time stamp of the latest frame
  lastSimulationTime   \* renderer: lastSimulationTime

vars == <<nodes, connectionDistance, aliveNodes, generation, config, last,
          listedMissing, listedSelf, shifted, vnodes, rgeneration, livingCount,
          connectionLines, isPlaying, currentTime, lastSimulationTime>>

graphVars == <<nodes, connectionDistance>>
historyOfLists == <<listedMissing, listedSelf>>
lifeVars == <<aliveNodes, generation>>
rendererVars == <<vnodes, rgeneration, livingCount, connectionLines,
                  isPlaying, currentTime, lastSimulationTime>>

----------------------------------------------------------------------------
(* Bounds of the model *)

\* largest node count a graph is constructed with
MaxInitNodes == 3
\* largest node count at which the operations called from outside (addNode,
\* removeNode, reviveNode, killNode) are explored
MaxGraph == 3
\* the simulation's maxNodes, scaled down from 250
MaxNodes == 4
\* generations explored between two resets
MaxGen == 2
\* latest frame time explored, in milliseconds
MaxTime == 2400

\* Math.random(), in hundredths
Draws == {0, 99}

Pos(x, y, z) == [x |-> x, y |-> y, z |-> z]

\* positions nodes are placed at and moved to
Positions == {Pos(0, 0, 0), Pos(0, 150, 0)}

\* offsets of a spawn position from the centroid: a radius in [30, 70) in
\* the xy-plane and a z jitter in [-10, 10)
Offsets == {Pos(30, 0, 0), Pos(0, -60, 5)}

----------------------------------------------------------------------------
(* Arrays and Sets *)

Min(a, b) == IF a < b THEN a ELSE b

includes(s, v) == \E k \in 1..Len(s) : s[k] = v

filterOut(s, v) == SelectSeq(s, LAMBDA e : e # v)

\* Array.prototype.push in place of Set.prototype.add
pushAgain(s, v) == Append(s, v)

\* Set.prototype.add
setAdd(s, v) == IF includes(s, v) THEN s ELSE Append(s, v)

\* Set.prototype.delete
setDelete(s, v) == filterOut(s, v)

\* the elements of a sequence
Elems(s) == {s[k] : k \in 1..Len(s)}

\* <<0, 1, ..., n - 1>>
Range(n) == [k \in 1..n |-> k - 1]

\* this.nodes[i] is defined
HasNode(ns, i) == i \in 0..(Len(ns) - 1)

NodeAt(ns, i) == ns[i + 1]

Node(p, c) == [x |-> p.x, y |-> p.y, z |-> p.z, connections |-> c]

----------------------------------------------------------------------------
(* ForceDirectedGraph *)

\* the square of distance(a, b)
distanceSq(a, b) ==
  (a.x - b.x) * (a.x - b.x) + (a.y - b.y) * (a.y - b.y) + (a.z - b.z) * (a.z - b.z)

\* the pair (i, j) is connected by the distance pass: dist < connectionDistance
\* and Math.random() < (1 - dist / connectionDistance) * 0.6, the draw being
\* pair[<<i, j>>]
pairConnects(ns, cd, i, j, pair) ==
  LET d2 == distanceSq(NodeAt(ns, i), NodeAt(ns, j))
  IN  /\ d2 < cd * cd
      /\ pair[<<i, j>>] < 60
      /\ 3600 * d2 < (60 - pair[<<i, j>>]) * (60 - pair[<<i, j>>]) * cd * cd

\* nearestIndex of the fallback pass: the first node other than i at the
\* least distance from it, -1 when there is no other node
nearestOther(ns, i) ==
  LET others == {j \in 0..(Len(ns) - 1) : j # i}
      d(j) == distanceSq(NodeAt(ns, i), NodeAt(ns, j))
  IN  IF others = {} THEN -1
      ELSE CHOOSE j \in others :
             /\ \A k \in others : d(j) <= d(k)
             /\ \A k \in others : k < j => d(k) > d(j)

\* push b onto the connections of node a only
connectOneWay(ns, a, b) ==
  [k \in 1..Len(ns) |->
     IF k = a + 1 THEN [ns[k] EXCEPT !.connections = Append(@, b)] ELSE ns[k]]

\* push b onto the connections of node a and a onto those of node b
connectBoth(ns, a, b) ==
  [k \in 1..Len(ns) |->
     IF k = a + 1 /\ k = b + 1
       THEN [ns[k] EXCEPT !.connections = Append(Append(@, b), a)]
     ELSE IF k = a + 1 THEN [ns[k] EXCEPT !.connections = Append(@, b)]
     ELSE IF k = b + 1 THEN [ns[k] EXCEPT !.connections = Append(@, a)]
     ELSE ns[k]]

RECURSIVE fallbackPass(_, _, _)
\* the second forEach of recalculateConnections, from node i on
fallbackPass(ns, solo, i) ==
  IF i >= Len(ns) THEN ns
  ELSE IF Len(NodeAt(ns, i).connections) = 0 /\ solo[i] > 30
    THEN LET nearestIndex == nearestOther(ns, i)
         IN  IF nearestIndex >= 0
               THEN fallbackPass(connectBoth(ns, i, nearestIndex), solo, i + 1)
               ELSE fallbackPass(ns, solo, i + 1)
    ELSE fallbackPass(ns, solo, i + 1)

\* the nested loops of recalculateConnections without the clearing of the
\* lists: the partners are pushed after the entries already there
distancePassKeepingLists(ns, cd, pair) ==
  [k \in 1..Len(ns) |->
     [ns[k] EXCEPT !.connections =
        @ \o SelectSeq(Range(Len(ns)),
                  LAMBDA j : \/ j < k - 1 /\ pairConnects(ns, cd, j, k - 1, pair)
                             \/ j > k - 1 /\ pairConnects(ns, cd, k - 1, j, pair))]]

\* the nested loops of recalculateConnections: every list is cleared, then
\* node k gets its partners in the order the loops push them (ascending)
distancePass(ns, cd, pair) ==
  [k \in 1..Len(ns) |->
     [ns[k] EXCEPT !.connections =
        SelectSeq(Range(Len(ns)),
                  LAMBDA j : \/ j < k - 1 /\ pairConnects(ns, cd, j, k - 1, pair)
                             \/ j > k - 1 /\ pairConnects(ns, cd, k - 1, j, pair))]]

\* the pairs the distance pass draws a random number for: those closer than
\* connectionDistance
Pairs(ns, cd) ==
  {p \in (0..(Len(ns) - 1)) \X (0..(Len(ns) - 1)) :
     /\ p[1] < p[2]
     /\ distanceSq(NodeAt(ns, p[1]), NodeAt(ns, p[2])) < cd * cd}

\* the nodes the fallback pass can draw a random number for: those the
\* distance pass left without a connection
Isolated(ns) == {i \in 0..(Len(ns) - 1) : Len(NodeAt(ns, i).connections) = 0}

recalculateConnections(ns, cd, pair, solo) ==
  fallbackPass(distancePass(ns, cd, pair), solo, 0)

RECURSIVE addReciprocalAlways(_, _, _)
\* the forEach of addNode without the test for a back-edge already present
addReciprocalAlways(ns, conns, k) ==
  IF k > Len(conns) THEN ns
  ELSE LET j == conns[k]
           newIndex == Len(ns) - 1
       IN  IF HasNode(ns, j)
             THEN addReciprocalAlways(
                    [ns EXCEPT ![j + 1].connections = Append(@, newIndex)],
                    conns, k + 1)
             ELSE addReciprocalAlways(ns, conns, k + 1)

RECURSIVE addReciprocal(_, _, _)
\* the forEach of addNode over the new node's list, from position k on
addReciprocal(ns, conns, k) ==
  IF k > Len(conns) THEN ns
  ELSE LET j == conns[k]
           newIndex == Len(ns) - 1
       IN  IF HasNode(ns, j) /\ ~includes(NodeAt(ns, j).connections, newIndex)
             THEN addReciprocal(
                    [ns EXCEPT ![j + 1].connections = Append(@, newIndex)],
                    conns, k + 1)
             ELSE addReciprocal(ns, conns, k + 1)

\* addNode without the push onto the listed nodes
addNodeOneWay(ns, nodeData) ==
  Append(ns, Node(nodeData, nodeData.connections))

addNode(ns, nodeData) ==
  addReciprocal(Append(ns, Node(nodeData, nodeData.connections)),
                nodeData.connections, 1)

\* the filter and map of removeNode on one list
stripAndShift(conns, index) ==
  LET kept == filterOut(conns, index)
  IN  [k \in 1..Len(kept) |-> IF kept[k] > index THEN kept[k] - 1 ELSE kept[k]]

\* removeNode without the filter that drops the removed index
removeNodeKeepingIndex(ns, index) ==
  LET shiftedOnly == [k \in 1..Len(ns) |->
                        [ns[k] EXCEPT !.connections =
                           [c \in 1..Len(@) |->
                              IF @[c] > index THEN @[c] - 1 ELSE @[c]]]]
  IN  IF HasNode(ns, index)
        THEN [k \in 1..(Len(ns) - 1) |->
                IF k <= index THEN shiftedOnly[k] ELSE shiftedOnly[k + 1]]
        ELSE shiftedOnly

\* removeNode without the map that renumbers the references
removeNodeWithoutShift(ns, index) ==
  LET stripped == [k \in 1..Len(ns) |->
                     [ns[k] EXCEPT !.connections = filterOut(@, index)]]
  IN  IF HasNode(ns, index)
        THEN [k \in 1..(Len(ns) - 1) |->
                IF k <= index THEN stripped[k] ELSE stripped[k + 1]]
        ELSE stripped

removeNode(ns, index) ==
  LET stripped == [k \in 1..Len(ns) |->
                     [ns[k] EXCEPT !.connections = stripAndShift(@, index)]]
  IN  IF HasNode(ns, index)
        THEN [k \in 1..(Len(ns) - 1) |->
                IF k <= index THEN stripped[k] ELSE stripped[k + 1]]
        ELSE stripped

getNeighbors(ns, index) ==
  IF ~HasNode(ns, index) THEN <<>> ELSE NodeAt(ns, index).connections

RECURSIVE sumLengths(_, _)
\* the forEach of getConnectionCount: count += node.connections.length,
\* from node k (1-based) on
sumLengths(ns, k) ==
  IF k > Len(ns) THEN 0 ELSE Len(ns[k].connections) + sumLengths(ns, k + 1)

\* getConnectionCount(): count / 2, a fraction when count is odd
getConnectionCount(ns) == [numerator |-> sumLengths(ns, 1), denominator |-> 2]

\* update(): the forces and the integration move the nodes and leave every
\* connection list as it is; the new positions are moved[k]
update(ns, moved) ==
  [k \in 1..Len(ns) |-> Node(moved[k], ns[k].connections)]

----------------------------------------------------------------------------
(* GameOfLifeSimulation *)

\* the configuration the constructor sets; probabilities in hundredths
DefaultConfig ==
  [minConnections |-> 1, deathProbability |-> 10, birthThreshold |-> 2,
   birthProbability |-> 40, maxNodes |-> MaxNodes, maxDeathsPerStep |-> 2]

\* maxDist of findNearbyAliveNodes
maxDist == 100
\* candidates.slice(0, 3)
maxBirths == 3
\* potentialConnections.slice(0, 4)
maxInitialConnections == 4

\* calculateSpawnPosition returns null
Null == [null |-> TRUE]

isAlive(alive, index) == includes(alive, index)

getAliveCount(alive) == Len(alive)

\* countAliveNeighbors counting every neighbour, alive or not
countAllNeighbors(ns, alive, index) ==
  IF ~HasNode(ns, index) THEN 0 ELSE Len(NodeAt(ns, index).connections)

countAliveNeighbors(ns, alive, index) ==
  IF ~HasNode(ns, index) THEN 0
  ELSE Cardinality({k \in 1..Len(NodeAt(ns, index).connections) :
                      includes(alive, NodeAt(ns, index).connections[k])})

RECURSIVE sumCoord(_, _, _, _)
\* the centroid loop: the sum of one coordinate over the listed indices that
\* have a node, from position k on
sumCoord(ns, idx, c, k) ==
  IF k > Len(idx) THEN 0
  ELSE (IF HasNode(ns, idx[k])
          THEN (CASE c = "x" -> NodeAt(ns, idx[k]).x
                  [] c = "y" -> NodeAt(ns, idx[k]).y
                  [] OTHER -> NodeAt(ns, idx[k]).z)
          ELSE 0)
       + sumCoord(ns, idx, c, k + 1)

\* node.connections.filter(i => this.aliveNodes.has(i))
aliveNeighborIndices(ns, alive, index) ==
  SelectSeq(NodeAt(ns, index).connections, LAMBDA i : includes(alive, i))

\* a centroid taken of a single alive neighbour
enoughForCentroidOne(count) == count >= 1

\* calculateSpawnPosition goes on unless aliveNeighborIndices.length < 2
enoughForCentroid(count) == ~(count < 2)

\* off[nearIndex] is (cos(offsetAngle) * offsetDist,
\* sin(offsetAngle) * offsetDist, (Math.random() - 0.5) * 20)
calculateSpawnPosition(ns, alive, nearIndex, off) ==
  IF ~HasNode(ns, nearIndex) THEN Null
  ELSE LET idx == aliveNeighborIndices(ns, alive, nearIndex)
           count == Len(idx)
       IN  IF ~enoughForCentroid(count) THEN Null
           ELSE [null |-> FALSE,
                 x |-> (sumCoord(ns, idx, "x", 1) \div count) + off[nearIndex].x,
                 y |-> (sumCoord(ns, idx, "y", 1) \div count) + off[nearIndex].y,
                 z |-> (sumCoord(ns, idx, "z", 1) \div count) + off[nearIndex].z]

RECURSIVE insertByDist(_, _, _, _)
\* e goes after every element of the sorted list that is no farther
insertByDist(sorted, e, ns, position) ==
  IF sorted = <<>> THEN <<e>>
  ELSE IF distanceSq(NodeAt(ns, Head(sorted)), position)
            <= distanceSq(NodeAt(ns, e), position)
         THEN <<Head(sorted)>> \o insertByDist(Tail(sorted), e, ns, position)
         ELSE <<e>> \o sorted

RECURSIVE sortByDist(_, _, _, _)
\* nearby.sort((a, b) => a.dist - b.dist), a stable sort
sortByDist(s, k, ns, position) ==
  IF k = 0 THEN <<>>
  ELSE insertByDist(sortByDist(s, k - 1, ns, position), s[k], ns, position)

\* findNearbyAliveNodes without the sort
findNearbyAliveNodesUnsorted(ns, alive, position) ==
  SelectSeq(alive,
    LAMBDA index : /\ HasNode(ns, index)
                   /\ distanceSq(NodeAt(ns, index), position) < maxDist * maxDist)

findNearbyAliveNodes(ns, alive, position) ==
  LET nearby == SelectSeq(alive,
                  LAMBDA index : /\ HasNode(ns, index)
                                 /\ distanceSq(NodeAt(ns, index), position)
                                      < maxDist * maxDist)
  IN  sortByDist(nearby, Len(nearby), ns, position)

\* Math.round(v / 10)
round10(v) == (v + 5) \div 10

posKey(p) == <<round10(p.x), round10(p.y), round10(p.z)>>

\* the birth gate with <= in place of <
birthsAllowedAtCap(ns, cfg) == Len(ns) <= cfg.maxNodes

\* step() looks for births: this.graph.nodes.length < this.maxNodes
birthsAllowed(ns, cfg) == Len(ns) < cfg.maxNodes

\* the alive indices for which step() reaches the random draws of
\* calculateSpawnPosition: none when the graph is at maxNodes
spawnSeeds(ns, alive, cfg) ==
  {index \in Elems(alive) :
     /\ birthsAllowed(ns, cfg)
     /\ HasNode(ns, index)
     /\ countAliveNeighbors(ns, alive, index) >= cfg.birthThreshold - 1
     /\ enoughForCentroid(Len(aliveNeighborIndices(ns, alive, index)))}

RECURSIVE birthScan(_, _, _, _, _, _, _)
\* the forEach of findBirthCandidates from position k of the alive-set on
birthScan(ns, alive, cfg, off, k, candidates, checkedPositions) ==
  IF k > Len(alive) THEN candidates
  ELSE LET index == alive[k]
           skip == birthScan(ns, alive, cfg, off, k + 1, candidates,
                             checkedPositions)
       IN  IF ~HasNode(ns, index) THEN skip
           ELSE IF countAliveNeighbors(ns, alive, index) < cfg.birthThreshold - 1
             THEN skip
           ELSE LET spawnPos == calculateSpawnPosition(ns, alive, index, off)
                IN  IF spawnPos.null THEN skip
                    ELSE IF posKey(spawnPos) \in checkedPositions THEN skip
                    ELSE LET potentialConnections ==
                               findNearbyAliveNodes(ns, alive, spawnPos)
                             checked == checkedPositions \cup {posKey(spawnPos)}
                         IN  IF Len(potentialConnections) >= cfg.birthThreshold
                               THEN birthScan(ns, alive, cfg, off, k + 1,
                                      Append(candidates,
                                        [x |-> spawnPos.x, y |-> spawnPos.y,
                                         z |-> spawnPos.z,
                                         connections |->
                                           SubSeq(potentialConnections, 1,
                                             Min(maxInitialConnections,
                                                 Len(potentialConnections)))]),
                                      checked)
                               ELSE birthScan(ns, alive, cfg, off, k + 1,
                                              candidates, checked)

\* findBirthCandidates with the slice starting one candidate late
findBirthCandidatesFromSecond(ns, alive, cfg, off) ==
  LET candidates == birthScan(ns, alive, cfg, off, 1, <<>>, {})
  IN  SubSeq(candidates, 2, Min(maxBirths, Len(candidates)))

findBirthCandidates(ns, alive, cfg, off) ==
  LET candidates == birthScan(ns, alive, cfg, off, 1, <<>>, {})
  IN  SubSeq(candidates, 1, Min(maxBirths, Len(candidates)))

\* the death draw reached with <= in place of <
atRiskAtThreshold(ns, alive, cfg) ==
  {index \in Elems(alive) :
     /\ HasNode(ns, index)
     /\ countAliveNeighbors(ns, alive, index) <= cfg.minConnections}

\* the death draw reached also by a node with more than four alive neighbours
atRiskOrOvercrowded(ns, alive, cfg) ==
  {index \in Elems(alive) :
     /\ HasNode(ns, index)
     /\ \/ countAliveNeighbors(ns, alive, index) < cfg.minConnections
        \/ countAliveNeighbors(ns, alive, index) > 4}

\* the death draw reached without the test that the node exists
atRiskWithoutNodeTest(ns, alive, cfg) ==
  {index \in Elems(alive) :
     countAliveNeighbors(ns, alive, index) < cfg.minConnections}

\* the alive indices for which step() reaches the death draw
atRisk(ns, alive, cfg) ==
  {index \in Elems(alive) :
     /\ HasNode(ns, index)
     /\ countAliveNeighbors(ns, alive, index) < cfg.minConnections}

\* the first forEach of step(): the death candidates, in alive-set order
deathCandidates(ns, alive, cfg, deathDraw) ==
  SelectSeq(alive,
    LAMBDA index : /\ index \in atRisk(ns, alive, cfg)
                   /\ deathDraw[index] < cfg.deathProbability)

RECURSIVE acceptBirths(_, _, _, _)
\* birthCandidates.forEach: candidate k is kept when its draw is below
\* birthProbability
acceptBirths(candidates, cfg, birthDraw, k) ==
  IF k > Len(candidates) THEN <<>>
  ELSE (IF birthDraw[k] < cfg.birthProbability THEN <<candidates[k]>> ELSE <<>>)
       \o acceptBirths(candidates, cfg, birthDraw, k + 1)

\* the candidates step() draws an acceptance for: none when the graph is at
\* maxNodes
stepCandidates(ns, alive, cfg, off) ==
  IF birthsAllowed(ns, cfg) THEN findBirthCandidates(ns, alive, cfg, off)
  ELSE <<>>

\* the births of step()
stepBirths(ns, alive, cfg, off, birthDraw) ==
  acceptBirths(stepCandidates(ns, alive, cfg, off), cfg, birthDraw, 1)

RECURSIVE deleteAll(_, _, _)
\* limitedDeaths.forEach(index => this.aliveNodes.delete(index))
deleteAll(alive, dead, k) ==
  IF k > Len(dead) THEN alive
  ELSE deleteAll(setDelete(alive, dead[k]), dead, k + 1)

RECURSIVE addBirths(_, _, _, _)
\* births.forEach(birthData => this.aliveNodes.add(this.graph.nodes.length))
addBirths(alive, births, ns, k) ==
  IF k > Len(births) THEN alive
  ELSE addBirths(setAdd(alive, Len(ns)), births, ns, k + 1)

\* step() without the slice to maxDeathsPerStep
stepUnlimitedDeaths(ns, alive, gen, cfg, deathDraw, off, birthDraw) ==
  LET deaths == deathCandidates(ns, alive, cfg, deathDraw)
      births == stepBirths(ns, alive, cfg, off, birthDraw)
  IN  [aliveNodes |-> addBirths(deleteAll(alive, deaths, 1), births, ns, 1),
       generation |-> gen + 1,
       deaths |-> deaths,
       births |-> births]

\* step() keeping the last maxDeathsPerStep death candidates: slice(-max)
stepLastDeaths(ns, alive, gen, cfg, deathDraw, off, birthDraw) ==
  LET deaths == deathCandidates(ns, alive, cfg, deathDraw)
      limitedDeaths ==
        SubSeq(deaths,
               Len(deaths) - Min(cfg.maxDeathsPerStep, Len(deaths)) + 1,
               Len(deaths))
      births == stepBirths(ns, alive, cfg, off, birthDraw)
  IN  [aliveNodes |-> addBirths(deleteAll(alive, limitedDeaths, 1), births, ns, 1),
       generation |-> gen + 1,
       deaths |-> limitedDeaths,
       births |-> births]

\* step() counting a generation only when a death or a birth occurred
stepCountingChanges(ns, alive, gen, cfg, deathDraw, off, birthDraw) ==
  LET deaths == deathCandidates(ns, alive, cfg, deathDraw)
      births == stepBirths(ns, alive, cfg, off, birthDraw)
      limitedDeaths == SubSeq(deaths, 1, Min(cfg.maxDeathsPerStep, Len(deaths)))
  IN  [aliveNodes |-> addBirths(deleteAll(alive, limitedDeaths, 1), births, ns, 1),
       generation |-> IF limitedDeaths = <<>> /\ births = <<>> THEN gen ELSE gen + 1,
       deaths |-> limitedDeaths,
       births |-> births]

\* step() returning the death candidates instead of the deaths applied
stepReturningCandidates(ns, alive, gen, cfg, deathDraw, off, birthDraw) ==
  LET deaths == deathCandidates(ns, alive, cfg, deathDraw)
      births == stepBirths(ns, alive, cfg, off, birthDraw)
      limitedDeaths == SubSeq(deaths, 1, Min(cfg.maxDeathsPerStep, Len(deaths)))
  IN  [aliveNodes |-> addBirths(deleteAll(alive, limitedDeaths, 1), births, ns, 1),
       generation |-> gen + 1,
       deaths |-> deaths,
       births |-> births]

\* step(): the alive-set and generation it leaves and the value it returns
step(ns, alive, gen, cfg, deathDraw, off, birthDraw) ==
  LET deaths == deathCandidates(ns, alive, cfg, deathDraw)
      births == stepBirths(ns, alive, cfg, off, birthDraw)
      limitedDeaths == SubSeq(deaths, 1, Min(cfg.maxDeathsPerStep, Len(deaths)))
  IN  [aliveNodes |-> addBirths(deleteAll(alive, limitedDeaths, 1), births, ns, 1),
       generation |-> gen + 1,
       deaths |-> limitedDeaths,
       births |-> births]

\* reviveNode without the test that the node exists
reviveNodeUnguarded(ns, alive, index) == setAdd(alive, index)

reviveNode(ns, alive, index) ==
  IF HasNode(ns, index) THEN setAdd(alive, index) ELSE alive

killNode(alive, index) == setDelete(alive, index)

\* a reset loop that stops one index short
resetAllButLast(ns) == Range(Len(ns) - 1)

\* reset(), and the loop of the constructor: the alive-set it leaves
reset(ns) == Range(Len(ns))

----------------------------------------------------------------------------
(* Construction *)

\* options.connectionDistance || 120
defaultConnectionDistance == 120

\* what an operation leaves in `last`: its name, the index it was called with
\* (for addNode the index of the node it returns), the nodeData handed to
\* addNode, for step() what it returned and what it started from, and for an
\* animation frame the calls it made, in order
Op(name) ==
  [op |-> name, index |-> -1, given |-> <<>>, deaths |-> <<>>, births |-> <<>>,
   aliveBefore |-> <<>>, lenBefore |-> 0, calls |-> <<>>]

\* new ForceDirectedGraph(options): initialize() places nodeCount nodes with
\* no connection and calls recalculateConnections()
GraphInit ==
  \E n \in 1..MaxInitNodes :
    \E place \in [1..n -> Positions] :
      LET placed == [k \in 1..n |-> Node(place[k], <<>>)]
          cd == defaultConnectionDistance
      IN  \E pair \in [Pairs(placed, cd) -> Draws] :
            \E solo \in [Isolated(distancePass(placed, cd, pair)) -> Draws] :
              /\ nodes = recalculateConnections(placed, cd, pair, solo)
              /\ connectionDistance = cd

\* new GameOfLifeSimulation(graph)
LifeInit ==
  /\ aliveNodes = reset(nodes)
  /\ generation = 0
  /\ config = DefaultConfig

\* the renderer's state before initSimulation()
RendererIdle ==
  /\ vnodes = <<>>
  /\ rgeneration = 0
  /\ livingCount = 0
  /\ connectionLines = {}
  /\ isPlaying = TRUE
  /\ currentTime = 0
  /\ lastSimulationTime = 0

Init ==
  /\ GraphInit
  /\ LifeInit
  /\ RendererIdle
  /\ last = Op("new")
  /\ listedMissing = FALSE
  /\ listedSelf = FALSE
  /\ shifted = FALSE

----------------------------------------------------------------------------
(* The operations of the graph, called from outside *)

\* connection lists an outside caller hands to addNode on a graph of n
\* nodes: none, one existing node, two existing nodes, one node twice, the
\* new node's own index, the index of a node that does not exist
CallerLists(n) ==
  {<<>>, <<n>>, <<n + 1>>}
    \cup {<<j>> : j \in 0..(n - 1)}
    \cup {<<0, j>> : j \in 0..(n - 1)}

RecalculateConnections ==
  /\ \E pair \in [Pairs(nodes, connectionDistance) -> Draws] :
       \E solo \in [Isolated(distancePass(nodes, connectionDistance, pair))
                       -> Draws] :
         nodes' = recalculateConnections(nodes, connectionDistance, pair, solo)
  /\ listedMissing' = FALSE
  /\ listedSelf' = FALSE
  /\ last' = Op("recalculateConnections")
  /\ UNCHANGED <<connectionDistance, lifeVars, config, shifted, rendererVars>>

AddNode ==
  /\ Len(nodes) < MaxGraph
  /\ \E p \in Positions, c \in CallerLists(Len(nodes)) :
       /\ nodes' = addNode(nodes, Node(p, c))
       /\ listedMissing' = (listedMissing \/ \E k \in 1..Len(c) : c[k] > Len(nodes))
       /\ listedSelf' = (listedSelf \/ \E k \in 1..Len(c) : c[k] = Len(nodes))
       /\ last' = [Op("addNode") EXCEPT !.index = Len(nodes),
                                         !.given = <<Node(p, c)>>]
  /\ UNCHANGED <<connectionDistance, lifeVars, config, shifted, rendererVars>>

RemoveNode ==
  /\ Len(nodes) <= MaxGraph
  /\ \E index \in 0..Len(nodes) :
       /\ nodes' = removeNode(nodes, index)
       /\ shifted' = (shifted \/ HasNode(nodes, index))
       /\ last' = [Op("removeNode") EXCEPT !.index = index]
  /\ UNCHANGED <<connectionDistance, lifeVars, config, historyOfLists, rendererVars>>

\* graph.update(repulsion, connectionDistance), one physics tick
Update ==
  /\ \E moved \in [1..Len(nodes) -> Positions] : nodes' = update(nodes, moved)
  /\ last' = Op("update")
  /\ UNCHANGED <<connectionDistance, lifeVars, config, historyOfLists, shifted,
                 rendererVars>>

NextGraph == RecalculateConnections \/ AddNode \/ RemoveNode \/ Update

SpecGraph == Init /\ [][NextGraph]_vars

----------------------------------------------------------------------------
(* The operations of the simulation, called from outside *)

\* step() has returned births the caller has not yet given to addNode
Pending == last.op = "step" /\ last.births # <<>>

RECURSIVE addAll(_, _, _)
\* changes.births.forEach(birthData => graph.addNode(birthData))
addAll(ns, births, k) ==
  IF k > Len(births) THEN ns
  ELSE addAll(addNode(ns, births[k]), births, k + 1)

\* step() adding its births to the graph itself
StepAddingBirths ==
  /\ generation < MaxGen
  /\ \E deathDraw \in [atRisk(nodes, aliveNodes, config) -> Draws],
        off \in [spawnSeeds(nodes, aliveNodes, config) -> Offsets] :
      \E birthDraw \in
           [1..Len(stepCandidates(nodes, aliveNodes, config, off)) -> Draws] :
       \E r \in {step(nodes, aliveNodes, generation, config, deathDraw, off,
                      birthDraw)} :
           /\ aliveNodes' = r.aliveNodes
           /\ generation' = r.generation
           /\ nodes' = addAll(nodes, r.births, 1)
           /\ last' = [Op("step") EXCEPT !.deaths = r.deaths,
                                         !.births = r.births,
                                         !.aliveBefore = aliveNodes,
                                         !.lenBefore = Len(nodes)]
  /\ UNCHANGED <<connectionDistance, config, historyOfLists, shifted,
                 rendererVars>>

\* simulation.step()
Step ==
  /\ generation < MaxGen
  /\ \E deathDraw \in [atRisk(nodes, aliveNodes, config) -> Draws],
        off \in [spawnSeeds(nodes, aliveNodes, config) -> Offsets] :
      \E birthDraw \in
           [1..Len(stepCandidates(nodes, aliveNodes, config, off)) -> Draws] :
       \E r \in {step(nodes, aliveNodes, generation, config, deathDraw, off,
                      birthDraw)} :
           /\ aliveNodes' = r.aliveNodes
           /\ generation' = r.generation
           /\ last' = [Op("step") EXCEPT !.deaths = r.deaths,
                                         !.births = r.births,
                                         !.aliveBefore = aliveNodes,
                                         !.lenBefore = Len(nodes)]
  /\ UNCHANGED <<graphVars, config, historyOfLists, shifted, rendererVars>>

\* the caller gives every birth of the last step() to addNode
ApplyBirths ==
  /\ Pending
  /\ nodes' = addAll(nodes, last.births, 1)
  /\ last' = [last EXCEPT !.op = "births"]
  /\ UNCHANGED <<connectionDistance, lifeVars, config, historyOfLists, shifted,
                 rendererVars>>

ReviveNode ==
  /\ Len(nodes) <= MaxGraph
  /\ \E index \in 0..Len(nodes) :
       /\ aliveNodes' = reviveNode(nodes, aliveNodes, index)
       /\ last' = [Op("reviveNode") EXCEPT !.index = index,
                                            !.aliveBefore = aliveNodes]
  /\ UNCHANGED <<graphVars, generation, config, historyOfLists, shifted,
                 rendererVars>>

KillNode ==
  /\ Len(nodes) <= MaxGraph
  /\ \E index \in 0..Len(nodes) :
       /\ aliveNodes' = killNode(aliveNodes, index)
       /\ last' = [Op("killNode") EXCEPT !.index = index,
                                          !.aliveBefore = aliveNodes]
  /\ UNCHANGED <<graphVars, generation, config, historyOfLists, shifted,
                 rendererVars>>

Reset ==
  /\ aliveNodes' = reset(nodes)
  /\ generation' = 0
  /\ shifted' = FALSE
  /\ last' = [Op("reset") EXCEPT !.aliveBefore = aliveNodes]
  /\ UNCHANGED <<graphVars, config, historyOfLists, rendererVars>>

Next ==
  \/ ~Pending /\ Step
  \/ ApplyBirths
  \/ ~Pending /\ ReviveNode
  \/ ~Pending /\ KillNode
  \/ ~Pending /\ Reset
  \/ ~Pending /\ RemoveNode
  \/ ~Pending /\ Len(nodes) <= MaxGraph /\ Update
  \/ ~Pending /\ Len(nodes) <= MaxGraph /\ RecalculateConnections

Spec == Init /\ [][Next]_vars

----------------------------------------------------------------------------
(* One step() on a graph built by hand, under a configuration set by hand *)

\* the configurations a test sets on the simulation's fields
RuleConfigs ==
  {[minConnections |-> m, deathProbability |-> d, birthThreshold |-> 2,
    birthProbability |-> b, maxNodes |-> 250, maxDeathsPerStep |-> x] :
     m \in {1, 2}, d \in {10, 100}, b \in {40, 100}, x \in {1, 2}}

\* the line graph 0-1, 1-2
LineGraph(place) ==
  <<Node(place[1], <<1>>), Node(place[2], <<0, 2>>), Node(place[3], <<1>>)>>

\* placements of its three nodes: at one point, 60 units apart along a line
LineLayouts ==
  {[k \in 1..3 |-> Pos(0, 0, 0)], [k \in 1..3 |-> Pos(60 * k, 0, 0)]}

\* the line graph 0-1, 1-2 and a node 3 with no connection, all at the point p
LineAndLoner(p) ==
  <<Node(p, <<1>>), Node(p, <<0, 2>>), Node(p, <<1>>), Node(p, <<>>)>>

\* the fully connected graph of n nodes
Clique(n, place) ==
  [k \in 1..n |-> Node(place[k], SelectSeq(Range(n), LAMBDA j : j # k - 1))]

\* placements of five nodes: all at one point, within 25 units of one
\* another, 300 units apart along a line
CliqueLayouts ==
  {[k \in 1..5 |-> Pos(0, 0, 0)],
   <<Pos(0, 0, 0), Pos(15, 0, 0), Pos(0, 15, 0), Pos(0, 0, 10), Pos(10, 10, 5)>>,
   [k \in 1..5 |-> Pos(300 * k, 0, 0)]}

\* the hub 0 connected to each of the n - 1 other nodes, which connect to
\* nothing else
Star(n, place) ==
  [k \in 1..n |-> Node(place[k], IF k = 1 THEN SubSeq(Range(n), 2, n) ELSE <<0>>)]

\* the size of the star: its hub has more than four connections
StarSize == 6

\* placements of the star's nodes: all at one point, 300 units apart
StarLayouts ==
  {[k \in 1..StarSize |-> Pos(0, 0, 0)], [k \in 1..StarSize |-> Pos(300 * k, 0, 0)]}

\* alive-sets of a graph of n nodes: all alive, all but one, all with the
\* index of a node that removeNode has taken from the end of the graph, and
\* all with node 0 last, as killNode(0) and reviveNode(0) leave the Set
AliveChoices(n) ==
  {Range(n), Append(Range(n), n), Append(filterOut(Range(n), 0), 0)}
    \cup {filterOut(Range(n), i) : i \in 0..(n - 1)}

InitRules ==
  /\ \/ \E place \in LineLayouts : nodes = LineGraph(place)
     \/ \E place \in CliqueLayouts : nodes = Clique(5, place)
     \/ \E place \in StarLayouts : nodes = Star(StarSize, place)
     \/ nodes = LineAndLoner(Pos(0, 0, 0))
  /\ connectionDistance = defaultConnectionDistance
  /\ aliveNodes \in AliveChoices(Len(nodes))
  /\ generation = 0
  /\ config \in RuleConfigs
  /\ RendererIdle
  /\ last = Op("new")
  /\ listedMissing = FALSE
  /\ listedSelf = FALSE
  /\ shifted = FALSE

\* one step(), then the caller's addNode of its births
NextRules ==
  \/ generation = 0 /\ Step
  \/ ApplyBirths

SpecRules == InitRules /\ [][NextRules]_vars

----------------------------------------------------------------------------
(* The renderer: initSimulation, stepSimulation, animate and the controls *)

\* CONFIG.simulationInterval and CONFIG.speed
simulationInterval == 2000
speed == 2

\* CONFIG.nodeCount, scaled to the bound on the initial graph
nodeCount == MaxInitNodes

\* milliseconds between two animation frames
FrameGaps == {1000, 1200}

\* the step of the simulation taken in every frame
stepDueEveryFrame(t, lastTime) == TRUE

\* currentTime - lastSimulationTime > CONFIG.simulationInterval / CONFIG.speed
stepDue(t, lastTime) == t - lastTime > simulationInterval \div speed

\* values of the connection-distance slider
SliderDistances == {120, 200}

\* where a physics tick of the loop leaves the n nodes: all drawn together,
\* or every second one pushed away
TickLayouts(n) ==
  {[k \in 1..n |-> Pos(0, 0, 0)],
   [k \in 1..n |-> IF k % 2 = 1 THEN Pos(0, 0, 0) ELSE Pos(0, 150, 0)]}

\* updateConnections() with CONFIG.showConnections set: one line for each
\* pair of alive visual nodes the graph connects
updateConnections(ns, vn) ==
  {key \in (0..(Len(ns) - 1)) \X (0..(Len(ns) - 1)) :
     /\ key[1] < key[2]
     /\ \E i \in 0..(Len(ns) - 1) :
          /\ vn[i + 1]
          /\ \E k \in 1..Len(NodeAt(ns, i).connections) :
               LET j == NodeAt(ns, i).connections[k]
               IN  /\ vn[j + 1]
                   /\ key = IF i < j THEN <<i, j>> ELSE <<j, i>>}

\* updateStats(): nodes.filter(n => n.userData.alive).length
livingOf(vn) == Cardinality({k \in 1..Len(vn) : vn[k]})

\* changes.deaths.forEach: the visual node of each death is marked not alive
markDeaths(vn, deaths) ==
  [k \in 1..Len(vn) |-> vn[k] /\ ~includes(deaths, k - 1)]

\* changes.births.forEach: one visual node, alive, is pushed for each birth
pushBirths(vn, births) == vn \o [k \in 1..Len(births) |-> TRUE]

\* initSimulation(): a new graph of CONFIG.nodeCount nodes at the slider's
\* connection distance, a new simulation, one alive visual node per node
InitSimulation ==
  /\ \E n \in {nodeCount} :
       \E place \in TickLayouts(n) :
         LET placed == [k \in 1..n |-> Node(place[k], <<>>)]
             cd == connectionDistance
         IN  \E pair \in [Pairs(placed, cd) -> Draws] :
               \E solo \in [Isolated(distancePass(placed, cd, pair)) -> Draws] :
                 nodes' = recalculateConnections(placed, cd, pair, solo)
  /\ aliveNodes' = reset(nodes')
  /\ vnodes' = [k \in 1..Len(nodes') |-> TRUE]
  /\ connectionLines' = updateConnections(nodes', vnodes')
  /\ livingCount' = livingOf(vnodes')
  /\ generation' = 0
  /\ rgeneration' = 0
  /\ config' = DefaultConfig
  /\ listedMissing' = FALSE
  /\ listedSelf' = FALSE
  /\ shifted' = FALSE
  /\ last' = Op("initSimulation")
  /\ UNCHANGED <<connectionDistance, isPlaying, currentTime, lastSimulationTime>>

\* stepSimulation() taking the node of the first death out of the graph
StepSimulationRemovingDead(ns) ==
  \E deathDraw \in [atRisk(ns, aliveNodes, config) -> Draws],
     off \in [spawnSeeds(ns, aliveNodes, config) -> Offsets] :
    \E birthDraw \in [1..Len(stepCandidates(ns, aliveNodes, config, off)) -> Draws] :
      \E changes \in {step(ns, aliveNodes, generation, config, deathDraw, off,
                           birthDraw)} :
        /\ aliveNodes' = changes.aliveNodes
        /\ generation' = changes.generation
        /\ rgeneration' = rgeneration + 1
        /\ nodes' = addAll(IF changes.deaths = <<>> THEN ns
                            ELSE removeNode(ns, changes.deaths[1]),
                            changes.births, 1)
        /\ vnodes' = pushBirths(markDeaths(vnodes, changes.deaths), changes.births)
        /\ connectionLines' = updateConnections(nodes', vnodes')
        /\ livingCount' = livingOf(vnodes')
        /\ last' = [Op("stepSimulation") EXCEPT !.deaths = changes.deaths,
                                                 !.births = changes.births,
                                                 !.aliveBefore = aliveNodes,
                                                 !.lenBefore = Len(ns),
                                                 !.calls = <<"graph.update",
                                                             "simulation.step">>]

\* stepSimulation() while playing, on the graph ns the physics tick of the
\* frame has left
StepSimulation(ns) ==
  \E deathDraw \in [atRisk(ns, aliveNodes, config) -> Draws],
     off \in [spawnSeeds(ns, aliveNodes, config) -> Offsets] :
    \E birthDraw \in [1..Len(stepCandidates(ns, aliveNodes, config, off)) -> Draws] :
      \E changes \in {step(ns, aliveNodes, generation, config, deathDraw, off,
                           birthDraw)} :
        /\ aliveNodes' = changes.aliveNodes
        /\ generation' = changes.generation
        /\ rgeneration' = rgeneration + 1
        /\ nodes' = addAll(ns, changes.births, 1)
        /\ vnodes' = pushBirths(markDeaths(vnodes, changes.deaths), changes.births)
        /\ connectionLines' = updateConnections(nodes', vnodes')
        /\ livingCount' = livingOf(vnodes')
        /\ last' = [Op("stepSimulation") EXCEPT !.deaths = changes.deaths,
                                                 !.births = changes.births,
                                                 !.aliveBefore = aliveNodes,
                                                 !.lenBefore = Len(ns),
                                                 !.calls = <<"graph.update",
                                                             "simulation.step">>]

\* animate(currentTime) setting lastSimulationTime in every frame, paused or
\* not
AnimateRestartingTheClock ==
  \E gap \in FrameGaps :
    LET t == currentTime + gap
    IN  /\ t <= MaxTime
        /\ currentTime' = t
        /\ UNCHANGED <<connectionDistance, config, listedMissing, listedSelf,
                       shifted, isPlaying>>
        /\ IF isPlaying
             THEN \E moved \in TickLayouts(Len(nodes)) :
                    IF stepDue(t, lastSimulationTime)
                      THEN /\ generation < MaxGen
                           /\ \E ticked \in {update(nodes, moved)} :
                                StepSimulation(ticked)
                           /\ lastSimulationTime' = t
                      ELSE /\ nodes' = update(nodes, moved)
                           /\ last' = [Op("tick") EXCEPT
                                         !.calls = <<"graph.update">>]
                           /\ UNCHANGED <<lifeVars, vnodes, rgeneration,
                                          livingCount, connectionLines,
                                          lastSimulationTime>>
             ELSE /\ last' = Op("frame")
                  /\ lastSimulationTime' = t
                  /\ UNCHANGED <<nodes, lifeVars, vnodes, rgeneration,
                                 livingCount, connectionLines>>

\* animate(currentTime): the physics tick while playing, then a step of the
\* simulation when more than simulationInterval / speed has passed
Animate ==
  \E gap \in FrameGaps :
    LET t == currentTime + gap
    IN  /\ t <= MaxTime
        /\ currentTime' = t
        /\ UNCHANGED <<connectionDistance, config, listedMissing, listedSelf,
                       shifted, isPlaying>>
        /\ IF isPlaying
             THEN \E moved \in TickLayouts(Len(nodes)) :
                    IF stepDue(t, lastSimulationTime)
                      THEN /\ generation < MaxGen
                           /\ \E ticked \in {update(nodes, moved)} :
                                StepSimulation(ticked)
                           /\ lastSimulationTime' = t
                      ELSE /\ nodes' = update(nodes, moved)
                           /\ last' = [Op("tick") EXCEPT
                                         !.calls = <<"graph.update">>]
                           /\ UNCHANGED <<lifeVars, vnodes, rgeneration,
                                          livingCount, connectionLines,
                                          lastSimulationTime>>
             ELSE /\ last' = Op("frame")
                  /\ UNCHANGED <<nodes, lifeVars, vnodes, rgeneration,
                                 livingCount, connectionLines,
                                 lastSimulationTime>>

\* the click handler of the Play/Pause button
PlayPause ==
  /\ isPlaying' = ~isPlaying
  /\ last' = Op("playPause")
  /\ UNCHANGED <<graphVars, lifeVars, config, listedMissing, listedSelf,
                 shifted, vnodes, rgeneration, livingCount, connectionLines,
                 currentTime, lastSimulationTime>>

\* the input handler of the connection-distance slider
ConnectionDistanceInput ==
  /\ Len(nodes) <= MaxGraph
  /\ \E value \in SliderDistances :
       /\ connectionDistance' = value
       /\ \E pair \in [Pairs(nodes, value) -> Draws] :
            \E solo \in [Isolated(distancePass(nodes, value, pair)) -> Draws] :
              nodes' = recalculateConnections(nodes, value, pair, solo)
  /\ connectionLines' = updateConnections(nodes', vnodes)
  /\ livingCount' = livingOf(vnodes)
  /\ last' = Op("connectionDistance")
  /\ UNCHANGED <<lifeVars, config, listedMissing, listedSelf, shifted, vnodes,
                 rgeneration, isPlaying, currentTime, lastSimulationTime>>

\* the state after the module has run initSimulation() and animate(0)
InitDriven ==
  /\ \E n \in {nodeCount} :
       \E place \in TickLayouts(n) :
         LET placed == [k \in 1..n |-> Node(place[k], <<>>)]
             cd == defaultConnectionDistance
         IN  \E pair \in [Pairs(placed, cd) -> Draws] :
               \E solo \in [Isolated(distancePass(placed, cd, pair)) -> Draws] :
                 /\ nodes = recalculateConnections(placed, cd, pair, solo)
                 /\ connectionDistance = cd
  /\ LifeInit
  /\ vnodes = [k \in 1..Len(nodes) |-> TRUE]
  /\ connectionLines = updateConnections(nodes, vnodes)
  /\ livingCount = livingOf(vnodes)
  /\ rgeneration = 0
  /\ isPlaying = TRUE
  /\ currentTime = 0
  /\ lastSimulationTime = 0
  /\ last = Op("initSimulation")
  /\ listedMissing = FALSE
  /\ listedSelf = FALSE
  /\ shifted = FALSE

NextDriven == Animate \/ PlayPause \/ ConnectionDistanceInput \/ InitSimulation

SpecDriven == InitDriven /\ [][NextDriven]_vars

----------------------------------------------------------------------------
(* Properties of the graph *)

\* every listed index names a node that lists the lister back
Symmetric(ns) ==
  \A i \in 0..(Len(ns) - 1) :
    \A k \in 1..Len(NodeAt(ns, i).connections) :
      LET j == NodeAt(ns, i).connections[k]
      IN  HasNode(ns, j) /\ includes(NodeAt(ns, j).connections, i)

NoSelfLoop(ns) ==
  \A i \in 0..(Len(ns) - 1) : ~includes(NodeAt(ns, i).connections, i)

----------------------------------------------------------------------------
(* Properties of the simulation *)

\* C3: the node count never exceeds maxNodes when every birth a step()
\* returns is given to addNode, starting from at most maxNodes nodes.
C3_NodeCountBounded == Len(nodes) <= config.maxNodes

C5_DeathMonotonicity ==
  last.op = "step" =>
    /\ Len(aliveNodes) >= Len(last.aliveBefore) - config.maxDeathsPerStep
    /\ Len(last.deaths) <= config.maxDeathsPerStep

\* a step() with more death candidates at risk than maxDeathsPerStep has
\* returned maxDeathsPerStep deaths and shrunk the alive-set by as many
C5_Witness ==
  /\ last.op = "step"
  /\ Cardinality(atRisk(nodes, last.aliveBefore, config)) > config.maxDeathsPerStep
  /\ Len(last.deaths) = config.maxDeathsPerStep
  /\ Len(aliveNodes) = Len(last.aliveBefore) - config.maxDeathsPerStep

C7_BirthsAlive ==
  last.op = "births" =>
    \A k \in 1..Len(last.births) : isAlive(aliveNodes, last.lenBefore + k - 1)

\* C8, as stated: every index of the alive-set is within the graph, in every
\* state reached by step() with its births applied, reviveNode, killNode,
\* reset and removeNode.
C8_AliveWithinGraph ==
  ~Pending => \A index \in Elems(aliveNodes) : HasNode(nodes, index)

\* C8, amended: every index of the alive-set is within the graph in every
\* state reached by step() with its births applied, reviveNode, killNode and
\* reset in which no removeNode has removed a node since the alive-set was
\* last seeded by the constructor or reset.
C8_AliveWithinGraphUnlessShifted ==
  (~Pending /\ ~shifted) => \A index \in Elems(aliveNodes) : HasNode(nodes, index)

\* the births of a step() have been added and the index step() marked alive
\* is the first new node
C8_Witness ==
  /\ ~shifted
  /\ last.op = "births"
  /\ isAlive(aliveNodes, last.lenBefore)
  /\ Len(nodes) > last.lenBefore

\* C10: after construction and after any reset() the alive-set is exactly
\* 0 .. nodes.length - 1 and generation is 0, and a reset() after a reset()
\* changes nothing.
C10_ResetSeedsAll ==
  /\ [](last.op \in {"new", "reset"} =>
          /\ aliveNodes = Range(Len(nodes))
          /\ generation = 0)
  /\ [][(last.op = "reset" /\ last'.op = "reset") =>
          /\ aliveNodes' = aliveNodes
          /\ generation' = generation
          /\ nodes' = nodes]_vars

\* a reset() has re-seeded an alive-set that deaths and births had changed,
\* on a graph births had grown
C10_Witness ==
  /\ last.op = "reset"
  /\ last.aliveBefore # aliveNodes
  /\ Len(nodes) > MaxInitNodes
  /\ aliveNodes = Range(Len(nodes))

\* C9: after initSimulation and after every stepSimulation the flag
\* userData.alive of every visual node equals isAlive of its index, and the
\* displayed living count equals getAliveCount().
C9_PresentationFollowsLife ==
  last.op \in {"initSimulation", "stepSimulation"} =>
    /\ \A i \in 0..(Len(vnodes) - 1) : vnodes[i + 1] <=> isAlive(aliveNodes, i)
    /\ livingCount = getAliveCount(aliveNodes)

----------------------------------------------------------------------------
(* Properties of one step() *)

\* the number of entries of node index's list that are in the alive-set
aliveNeighborCount(ns, alive, index) ==
  Cardinality({k \in 1..Len(NodeAt(ns, index).connections) :
                 NodeAt(ns, index).connections[k] \in Elems(alive)})

\* the alive nodes with fewer alive neighbours than minConnections
belowMinimum(ns, alive, cfg) ==
  {index \in Elems(alive) :
     HasNode(ns, index) /\ aliveNeighborCount(ns, alive, index) < cfg.minConnections}

\* the graph is the line 0-1, 1-2
IsLine(ns) ==
  /\ Len(ns) = 3
  /\ ns[1].connections = <<1>>
  /\ ns[2].connections = <<0, 2>>
  /\ ns[3].connections = <<1>>

\* C11: with deathProbability = 1 a step() returns as deaths
\* min(maxDeathsPerStep, count) of the alive nodes whose alive-neighbor count
\* at its start is below minConnections, removes exactly those from the
\* alive-set and no other index; on the fully alive line 0-1, 1-2 with
\* minConnections = 2 (and maxDeathsPerStep at its default 2) the deaths are
\* exactly 0 and 2 and node 1 stays alive.
C11_CertainDeathOfTheIsolated ==
  (last.op = "step" /\ config.deathProbability = 100) =>
    LET due == belowMinimum(nodes, last.aliveBefore, config)
        dead == Elems(last.deaths)
    IN  /\ dead \subseteq due
        /\ Len(last.deaths) = Min(config.maxDeathsPerStep, Cardinality(due))
        /\ Cardinality(dead) = Len(last.deaths)
        /\ \A index \in Elems(last.aliveBefore) :
             isAlive(aliveNodes, index) <=> index \notin dead
        /\ (IsLine(nodes) /\ last.aliveBefore = <<0, 1, 2>>
              /\ config.minConnections = 2 /\ config.maxDeathsPerStep = 2)
             => /\ dead = {0, 2}
                /\ ~isAlive(aliveNodes, 0)
                /\ ~isAlive(aliveNodes, 2)
                /\ isAlive(aliveNodes, 1)

\* the step() of that scenario has run on the fully alive line
C11_Witness ==
  /\ last.op = "step"
  /\ config.maxDeathsPerStep = 2
  /\ config.deathProbability = 100
  /\ config.minConnections = 2
  /\ IsLine(nodes)
  /\ last.aliveBefore = <<0, 1, 2>>
  /\ last.deaths = <<0, 2>>

\* the graph is the fully connected graph of five nodes
IsClique5(ns) ==
  /\ Len(ns) = 5
  /\ \A i \in 0..4 :
       /\ Len(NodeAt(ns, i).connections) = 4
       /\ Elems(NodeAt(ns, i).connections) = (0..4) \ {i}

\* the step() of last ran on the fully alive 5-clique with
\* birthProbability = 1 and birthThreshold = 2
CliqueScenario ==
  /\ last.op = "step"
  /\ IsClique5(nodes)
  /\ last.aliveBefore = Range(5)
  /\ config.birthProbability = 100
  /\ config.birthThreshold = 2

\* a birth of the last step() has between birthThreshold and 4 connections
SomeBirthWellConnected ==
  \E k \in 1..Len(last.births) :
    /\ Len(last.births[k].connections) >= config.birthThreshold
    /\ Len(last.births[k].connections) <= 4

\* C12, as stated: on the fully alive 5-clique with birthProbability = 1 and
\* birthThreshold = 2 one step() returns at least one birth, whose connections
\* list has between birthThreshold and 4 entries, wherever the five nodes are
\* placed and whatever offsets are drawn.
C12_CliqueGivesBirth == CliqueScenario => SomeBirthWellConnected

\* C12, amended: the same when the five nodes lie within 25 units of one
\* another, so that every spawn position, at most 71 units from the centroid
\* of four of them, has all five within 100 units.
C12_CloseCliqueGivesBirth ==
  (/\ CliqueScenario
   /\ \A i, j \in 0..4 : distanceSq(NodeAt(nodes, i), NodeAt(nodes, j)) <= 25 * 25)
    => SomeBirthWellConnected

\* the step() has run on a clique whose nodes are apart, within 25 units, and
\* returned a birth with four connections
C12_Witness ==
  /\ CliqueScenario
  /\ \A i, j \in 0..4 : distanceSq(NodeAt(nodes, i), NodeAt(nodes, j)) <= 25 * 25
  /\ \E i, j \in 0..4 : distanceSq(NodeAt(nodes, i), NodeAt(nodes, j)) > 0
  /\ \E k \in 1..Len(last.births) : Len(last.births[k].connections) = 4

\* the alive nodes of the graph within 100 units of position p
nearbyAlive(ns, alive, p) ==
  {index \in Elems(alive) :
     HasNode(ns, index) /\ distanceSq(NodeAt(ns, index), p) < 100 * 100}

\* the list c holds the nearest of the alive nodes within 100 units of p:
\* distinct members of that set, nearest first, and no node left out is
\* nearer than one taken
NearestPrefix(ns, alive, p, c) ==
  LET near == nearbyAlive(ns, alive, p)
      d(index) == distanceSq(NodeAt(ns, index), p)
  IN  /\ Elems(c) \subseteq near
      /\ Cardinality(Elems(c)) = Len(c)
      /\ Len(c) = Min(4, Cardinality(near))
      /\ \A k \in 1..(Len(c) - 1) : d(c[k]) <= d(c[k + 1])
      /\ \A index \in near \ Elems(c) : \A k \in 1..Len(c) : d(c[k]) <= d(index)

\* C13: every birth a step() returns lists at least birthThreshold and at
\* most 4 distinct indices, each of a node of the graph that was alive when
\* the step began and lies within 100 units of the birth's position, and the
\* list is the nearest-first prefix of those nodes.
C13_BirthConnections ==
  last.op = "step" =>
    \A k \in 1..Len(last.births) :
      LET birth == last.births[k]
      IN  /\ Len(birth.connections) >= config.birthThreshold
          /\ Len(birth.connections) <= 4
          /\ NearestPrefix(nodes, last.aliveBefore, birth, birth.connections)

\* a step() has returned a birth whose four connections are not in index
\* order, a fifth alive node being farther from it
C13_Witness ==
  /\ last.op = "step"
  /\ \E k \in 1..Len(last.births) :
       LET c == last.births[k].connections
       IN  /\ Len(c) = 4
           /\ \E a \in 1..3 : c[a] > c[a + 1]
           /\ Cardinality(nearbyAlive(nodes, last.aliveBefore, last.births[k])) = 5

\* C14: every index in the deaths a step() returns was alive before the call
\* and is not alive after it, and every index alive before and not after is
\* in the returned deaths.
C14_DeathsAreTheDeactivated ==
  last.op = "step" =>
    /\ \A k \in 1..Len(last.deaths) :
         /\ last.deaths[k] \in Elems(last.aliveBefore)
         /\ ~isAlive(aliveNodes, last.deaths[k])
    /\ \A index \in Elems(last.aliveBefore) :
         ~isAlive(aliveNodes, index) => index \in Elems(last.deaths)

\* a step() has returned deaths while another alive node below minConnections
\* was kept by the limit
C14_Witness ==
  /\ last.op = "step"
  /\ Len(last.deaths) = config.maxDeathsPerStep
  /\ Cardinality(belowMinimum(nodes, last.aliveBefore, config)) > Len(last.deaths)
  /\ \E index \in Elems(last.aliveBefore) : isAlive(aliveNodes, index)

\* C15: generation counts the step() calls since construction or the last
\* reset(): it is 0 after construction, every step() adds exactly 1 to it,
\* death and birth or none, reset() sets it to 0, and reviveNode, killNode,
\* addNode of births, removeNode, recalculateConnections and update leave it
\* as it is.
C15_GenerationCountsSteps ==
  /\ [](last.op = "new" => generation = 0)
  /\ [][/\ last'.op = "step" => generation' = generation + 1
        /\ last'.op = "reset" => generation' = 0
        /\ last'.op \notin {"step", "reset"} => generation' = generation]_vars

\* a second step() has run and returned neither a death nor a birth
C15_Witness ==
  /\ last.op = "step"
  /\ generation = 2
  /\ last.deaths = <<>>
  /\ last.births = <<>>

----------------------------------------------------------------------------
(* Properties of addNode and removeNode *)

\* how often v occurs in the sequence s
occurrences(s, v) == Cardinality({k \in 1..Len(s) : s[k] = v})

\* C16: addNode appends exactly one node, at the index that was the node
\* count, with the given position and exactly the given list; every prior
\* node keeps its index, its position and its list, to which the new index
\* is appended when the node is listed and lacks it, so that every listed
\* existing node holds the new index exactly once; the node returned is the
\* new one.
C16_AddNodeAppends ==
  [][last'.op = "addNode" =>
       LET n == Len(nodes)
           nodeData == last'.given[1]
       IN  /\ Len(nodes') = n + 1
           /\ nodes'[n + 1] = nodeData
           /\ last'.index = n
           /\ \A k \in 1..n :
                /\ nodes'[k].x = nodes[k].x
                /\ nodes'[k].y = nodes[k].y
                /\ nodes'[k].z = nodes[k].z
                /\ IF includes(nodeData.connections, k - 1)
                        /\ ~includes(nodes[k].connections, n)
                     THEN nodes'[k].connections = Append(nodes[k].connections, n)
                     ELSE nodes'[k].connections = nodes[k].connections
                /\ includes(nodeData.connections, k - 1)
                     => occurrences(nodes'[k].connections, n) = 1]_vars

\* an addNode that lists node 0 twice has run and node 0 holds the new index
\* once
C16_Witness ==
  /\ last.op = "addNode"
  /\ last.given[1].connections = <<0, 0>>
  /\ Len(nodes) = 3
  /\ NodeAt(nodes, 2).connections = <<0, 0>>
  /\ occurrences(NodeAt(nodes, 0).connections, 2) = 1

\* the index a node with index j has after the node with index `index` is gone
renumbered(j, index) == IF j > index THEN j - 1 ELSE j

\* C17: removeNode(index) on a valid index of a graph with symmetric,
\* in-range adjacency leaves one node less; every remaining node keeps its
\* position and loses exactly its references to index; every reference is
\* within 0 .. count - 1; and two remaining nodes are connected after it,
\* under their new indices, exactly when they were connected before.
C17_RemoveNodeRenumbers ==
  [][(/\ last'.op = "removeNode"
      /\ HasNode(nodes, last'.index)
      /\ Symmetric(nodes)) =>
       LET index == last'.index
           rest == (0..(Len(nodes) - 1)) \ {index}
       IN  /\ Len(nodes') = Len(nodes) - 1
           /\ \A a \in rest :
                LET before == NodeAt(nodes, a)
                    after == NodeAt(nodes', renumbered(a, index))
                IN  /\ after.x = before.x /\ after.y = before.y /\ after.z = before.z
                    /\ Len(after.connections)
                         = Len(before.connections)
                             - occurrences(before.connections, index)
                    /\ \A k \in 1..Len(after.connections) :
                         after.connections[k] \in 0..(Len(nodes') - 1)
                    /\ \A b \in rest :
                         includes(before.connections, b)
                           <=> includes(after.connections, renumbered(b, index))]_vars

\* removeNode(0) has run on a graph that listed only existing nodes and the
\* two nodes that remain, once 1 and 2, are connected as 0 and 1
C17_Witness ==
  /\ last.op = "removeNode"
  /\ last.index = 0
  /\ ~listedMissing
  /\ Len(nodes) = 2
  /\ includes(NodeAt(nodes, 0).connections, 1)
  /\ includes(NodeAt(nodes, 1).connections, 0)

\* the unordered pairs of nodes with a recorded edge
recordedPairs(ns) ==
  {{i, NodeAt(ns, i).connections[k]} :
     <<i, k>> \in {p \in (0..(Len(ns) - 1)) \X (1..(2 * Len(ns) + 2)) :
                     p[2] <= Len(NodeAt(ns, p[1]).connections)}}

----------------------------------------------------------------------------
(* Properties of the manual controls and of stale indices *)

\* C19: reviveNode of an index already alive and killNode of an index not
\* alive leave the alive-set and generation unchanged, and a second
\* reviveNode (or killNode) of the same index right after the first changes
\* nothing.
C19_ManualControlsIdempotent ==
  [][/\ last'.op = "reviveNode" =>
          /\ generation' = generation
          /\ isAlive(aliveNodes, last'.index) => aliveNodes' = aliveNodes
          /\ (last.op = "reviveNode" /\ last.index = last'.index)
               => aliveNodes' = aliveNodes
     /\ last'.op = "killNode" =>
          /\ generation' = generation
          /\ ~isAlive(aliveNodes, last'.index) => aliveNodes' = aliveNodes
          /\ (last.op = "killNode" /\ last.index = last'.index)
               => aliveNodes' = aliveNodes]_vars

\* after a step(), reviveNode has run on a node that was alive, other nodes
\* being dead
C19_Witness ==
  /\ last.op = "reviveNode"
  /\ generation > 0
  /\ HasNode(nodes, last.index)
  /\ isAlive(last.aliveBefore, last.index)
  /\ aliveNodes = last.aliveBefore
  /\ Len(aliveNodes) < Len(nodes)

\* the indices, in and just outside the range the model reaches, that have
\* no graph node
absentIndices(ns) == {index \in (-1)..(MaxNodes + 1) : ~HasNode(ns, index)}

\* the entries of an alive-set that had no node in a graph of len nodes
staleEntries(alive, len) == {index \in Elems(alive) : index >= len}

\* C20: for an index with no graph node getNeighbors is empty and
\* countAliveNeighbors is 0; reviveNode of such an index leaves the
\* alive-set unchanged; step() leaves an alive-set entry with no graph node
\* out of the deaths, keeps it in the alive-set, draws no spawn position for
\* it and connects no birth to it.
C20_AbsentIndicesTolerated ==
  /\ [](/\ \A index \in absentIndices(nodes) :
             /\ getNeighbors(nodes, index) = <<>>
             /\ countAliveNeighbors(nodes, aliveNodes, index) = 0
             /\ index \notin spawnSeeds(nodes, aliveNodes, config)
        /\ last.op \in {"step", "births"} =>
             \A index \in staleEntries(last.aliveBefore, last.lenBefore) :
                /\ ~includes(last.deaths, index)
                /\ isAlive(aliveNodes, index)
                /\ \A k \in 1..Len(last.births) :
                     ~includes(last.births[k].connections, index))
  /\ [][(last'.op = "reviveNode" /\ ~HasNode(nodes, last'.index))
           => aliveNodes' = aliveNodes]_vars

\* step() has reported a death while the alive-set held an entry left behind
\* by removeNode
C20_Witness ==
  /\ last.op = "step"
  /\ shifted
  /\ staleEntries(last.aliveBefore, last.lenBefore) # {}
  /\ last.deaths # <<>>

----------------------------------------------------------------------------
(* Properties of the driving loop's sequencing *)

\* C21: in every animation frame while playing, graph.update runs exactly
\* once and is the first call of the frame; simulation.step runs at most
\* once, after it, and only when more than simulationInterval / speed has
\* passed since the time recorded at the previous step, which is then set to
\* the frame's time: two consecutive steps are more than that interval apart.
\* The step works on the graph the tick has left: its births stay where
\* step() put them.
C21_FrameSequencing ==
  [][(currentTime' > currentTime /\ isPlaying) =>
       /\ occurrences(last'.calls, "graph.update") = 1
       /\ last'.calls[1] = "graph.update"
       /\ occurrences(last'.calls, "simulation.step") <= 1
       /\ generation' = generation + occurrences(last'.calls, "simulation.step")
       /\ includes(last'.calls, "simulation.step") =>
            /\ currentTime' - lastSimulationTime > simulationInterval \div speed
            /\ lastSimulationTime' = currentTime'
            /\ lastSimulationTime' - lastSimulationTime
                 > simulationInterval \div speed
            /\ Len(nodes') = Len(nodes) + Len(last'.births)
            /\ \A k \in 1..Len(last'.births) :
                 /\ nodes'[Len(nodes) + k].x = last'.births[k].x
                 /\ nodes'[Len(nodes) + k].y = last'.births[k].y
                 /\ nodes'[Len(nodes) + k].z = last'.births[k].z
       /\ ~includes(last'.calls, "simulation.step") =>
            lastSimulationTime' = lastSimulationTime]_vars

\* after a first step, a playing frame exactly simulationInterval / speed
\* later has run the physics tick and no step
C21_Witness ==
  /\ last.op = "tick"
  /\ last.calls = <<"graph.update">>
  /\ generation >= 1
  /\ lastSimulationTime > 0
  /\ currentTime - lastSimulationTime = simulationInterval \div speed

----------------------------------------------------------------------------
(* Properties of the death and birth rules on hubs and sparse graphs *)

\* the alive nodes with more than four alive neighbours
overcrowded(ns, alive) ==
  {index \in Elems(alive) :
     HasNode(ns, index) /\ countAliveNeighbors(ns, alive, index) > 4}

atRiskInOrder(ns, alive, cfg) ==
  SelectSeq(alive, LAMBDA index : index \in atRisk(ns, alive, cfg))

\* the position of v in the duplicate-free sequence s
positionIn(s, v) == CHOOSE k \in 1..Len(s) : s[k] = v

\* C23: the deaths of a step() are at most maxDeathsPerStep nodes at risk,
\* listed in the alive-set's iteration order, and every other index alive
\* before the step is alive after it; when every node at risk is accepted
\* (deathProbability = 1) and they are more than maxDeathsPerStep, the deaths
\* are exactly the first maxDeathsPerStep of them in that order.
C23_FirstCandidatesDie ==
  last.op = "step" =>
    LET inOrder == atRiskInOrder(nodes, last.aliveBefore, config)
    IN  /\ Len(last.deaths) <= config.maxDeathsPerStep
        /\ \A k \in 1..Len(last.deaths) : includes(inOrder, last.deaths[k])
        /\ \A j, k \in 1..Len(last.deaths) :
             j < k => positionIn(inOrder, last.deaths[j])
                        < positionIn(inOrder, last.deaths[k])
        /\ \A index \in Elems(last.aliveBefore) :
             ~includes(last.deaths, index) => isAlive(aliveNodes, index)
        /\ (config.deathProbability = 100
              /\ Len(inOrder) > config.maxDeathsPerStep)
             => last.deaths = SubSeq(inOrder, 1, config.maxDeathsPerStep)

\* a step() with deathProbability = 1 on the star whose alive-set iterates
\* 1, 2, 3, 4, 5, 0 and whose leaves are all at risk has let 1 and 2 die and
\* the other leaves live
C23_Witness ==
  /\ last.op = "step"
  /\ config.deathProbability = 100
  /\ config.maxDeathsPerStep = 2
  /\ last.aliveBefore = <<1, 2, 3, 4, 5, 0>>
  /\ atRiskInOrder(nodes, last.aliveBefore, config) = <<1, 2, 3, 4, 5>>
  /\ last.deaths = <<1, 2>>
  /\ isAlive(aliveNodes, 3) /\ isAlive(aliveNodes, 4) /\ isAlive(aliveNodes, 5)

\* C24: a step() returns births only when some alive node has two or more
\* alive neighbours: when every alive node has at most one, the births are
\* empty, although one alive neighbour (birthThreshold - 1) passes the first
\* test of findBirthCandidates.
C24_NoBirthWithoutTwoNeighbors ==
  last.op = "step" =>
    ((\A index \in Elems(last.aliveBefore) :
        countAliveNeighbors(nodes, last.aliveBefore, index) <= 1)
       => last.births = <<>>)

\* a step() with birthProbability = 1 has run on the line 0-1, 1-2 placed at
\* one point with 0 and 1 alive: each has one alive neighbour, which is
\* birthThreshold - 1, and both are within maxDist of any spawn position
C24_Witness ==
  /\ last.op = "step"
  /\ IsLine(nodes)
  /\ nodes[1].x = nodes[2].x /\ nodes[1].y = nodes[2].y /\ nodes[1].z = nodes[2].z
  /\ last.aliveBefore = <<0, 1>>
  /\ config.birthProbability = 100
  /\ countAliveNeighbors(nodes, last.aliveBefore, 1) = config.birthThreshold - 1
  /\ last.births = <<>>

----------------------------------------------------------------------------
(* Properties of the Life Process as a reader of the graph *)

\* C25: step(), reviveNode, killNode and reset leave the graph as it is: the
\* node count, every node's position and every connection list; the births
\* step() returns are not in the graph when it returns.
C25_LifeProcessReadsOnly ==
  [][last'.op \in {"step", "reviveNode", "killNode", "reset"} =>
       /\ Len(nodes') = Len(nodes)
       /\ nodes' = nodes
       /\ connectionDistance' = connectionDistance
       /\ last'.op = "step" => Len(nodes') = last'.lenBefore]_vars

\* step() has returned a birth and the graph holds the nodes it held before
C25_Witness ==
  /\ last.op = "step"
  /\ last.births # <<>>
  /\ Len(nodes) = last.lenBefore

----------------------------------------------------------------------------
(* Properties of recalculateConnections *)

\* nodes i and j are closer than connectionDistance
withinDistance(ns, cd, i, j) ==
  distanceSq(NodeAt(ns, i), NodeAt(ns, j)) < cd * cd

\* the edge {a, b} can be the fallback edge of a: b is the first entry of
\* a's list, as it is pushed onto an empty list, and no other node is nearer
\* to a than b
fallbackFrom(ns, a, b) ==
  /\ NodeAt(ns, a).connections # <<>>
  /\ NodeAt(ns, a).connections[1] = b
  /\ \A k \in 0..(Len(ns) - 1) :
       k # a => distanceSq(NodeAt(ns, a), NodeAt(ns, b))
                  <= distanceSq(NodeAt(ns, a), NodeAt(ns, k))

\* C26: after recalculateConnections() every recorded edge {i, j} joins two
\* existing, different nodes that are closer than connectionDistance, or is
\* the fallback edge of one of them to a node at the least distance from it;
\* whatever the lists held before, nothing else is recorded; no node has more
\* than one edge that is neither short nor the fallback edge of its other end.
C26_EdgesAfterRecalculate ==
  last.op = "recalculateConnections" =>
    \A i \in 0..(Len(nodes) - 1) :
      /\ \A k \in 1..Len(NodeAt(nodes, i).connections) :
           LET j == NodeAt(nodes, i).connections[k]
           IN  /\ HasNode(nodes, j)
               /\ j # i
               /\ \/ withinDistance(nodes, connectionDistance, i, j)
                  \/ fallbackFrom(nodes, i, j)
                  \/ fallbackFrom(nodes, j, i)
      /\ Cardinality({j \in Elems(NodeAt(nodes, i).connections) :
                        /\ ~withinDistance(nodes, connectionDistance, i, j)
                        /\ ~fallbackFrom(nodes, j, i)}) <= 1

\* recalculateConnections() has left a short edge and a fallback edge
\* longer than connectionDistance
C26_Witness ==
  /\ last.op = "recalculateConnections"
  /\ \E i, j \in 0..(Len(nodes) - 1) :
       /\ includes(NodeAt(nodes, i).connections, j)
       /\ ~withinDistance(nodes, connectionDistance, i, j)
       /\ fallbackFrom(nodes, i, j)
  /\ \E i, j \in 0..(Len(nodes) - 1) :
       /\ i # j
       /\ includes(NodeAt(nodes, i).connections, j)
       /\ withinDistance(nodes, connectionDistance, i, j)

----------------------------------------------------------------------------
(* Properties of births and deaths of one step *)

\* C27: when step() returns, every index in the connections of a returned
\* birth is in the alive-set: no node is deactivated by a step and handed
\* out as a connection of a birth of that step.
C27_BirthConnectionsStayAlive ==
  last.op = "step" =>
    \A k \in 1..Len(last.births) :
      \A c \in 1..Len(last.births[k].connections) :
        /\ isAlive(aliveNodes, last.births[k].connections[c])
        /\ ~includes(last.deaths, last.births[k].connections[c])

----------------------------------------------------------------------------
(* Properties of the driven system over several frames *)

\* C28: in the driven system, from one initSimulation() to the next, the
\* node count of the graph never decreases and a node of the graph that is
\* not in the alive-set is not in it after any later operation: an index a
\* step has deactivated stays out of the alive-set.
C28_DeathIsFinalNotPhysical ==
  [][last'.op # "initSimulation" =>
       /\ Len(nodes') >= Len(nodes)
       /\ \A index \in 0..(Len(nodes) - 1) :
            ~isAlive(aliveNodes, index) => ~isAlive(aliveNodes', index)
       /\ \A k \in 1..Len(last'.deaths) :
            /\ HasNode(nodes', last'.deaths[k])
            /\ ~isAlive(aliveNodes', last'.deaths[k])]_vars

\* the second step since initSimulation() has run, and a node that an
\* earlier step deactivated is in the graph and not alive
C28_Witness ==
  /\ last.op = "stepSimulation"
  /\ generation = 2
  /\ \E index \in 0..(Len(nodes) - 1) :
       /\ index < Len(vnodes)
       /\ ~vnodes[index + 1]
       /\ ~includes(last.deaths, index)
       /\ ~isAlive(aliveNodes, index)

\* C29: a frame while paused calls neither graph.update nor simulation.step
\* and leaves the graph, the alive-set, both generation counters, the visual
\* nodes and the recorded time of the last step as they are; a frame while
\* playing whose time is more than simulationInterval / speed after that
\* recorded time, however many paused frames came before it, runs exactly
\* one step.
C29_PauseFreezesAndKeepsDueStep ==
  [][currentTime' > currentTime =>
       /\ ~isPlaying =>
            /\ last'.calls = <<>>
            /\ nodes' = nodes
            /\ aliveNodes' = aliveNodes
            /\ generation' = generation
            /\ rgeneration' = rgeneration
            /\ vnodes' = vnodes
            /\ lastSimulationTime' = lastSimulationTime
       /\ (isPlaying /\ currentTime' - lastSimulationTime
                          > simulationInterval \div speed) =>
            /\ last'.calls = <<"graph.update", "simulation.step">>
            /\ generation' = generation + 1
            /\ rgeneration' = rgeneration + 1]_vars

\* a frame has run while paused at a time when a step was due, and there is
\* time left for a frame after resume
C29_Witness ==
  /\ last.op = "frame"
  /\ ~isPlaying
  /\ currentTime - lastSimulationTime > simulationInterval \div speed
  /\ currentTime + simulationInterval \div speed <= MaxTime
  /\ generation < MaxGen

====
